---- MODULE Spec2Model ----
(***************************************************************************)
(* Model of app.py, the Streamlit market-breadth dashboard.                *)
(*                                                                         *)
(* The script is re-executed from top to bottom on every interaction; one  *)
(* action of this module is one complete execution of the script for the   *)
(* widget state that the interaction produced.                             *)
(*                                                                         *)
(* Units: pct_chg is held in tenths of a percent (9.8 is 98), median_pct   *)
(* in twentieths (twice the median of the tenths), so that all arithmetic  *)
(* stays in the integers.  A calendar date is the day number within one    *)
(* month; its str() form is the two zero-padded day digits (the constant   *)
(* "YYYY-MM-" prefix of the ISO form is the same for all dates and left    *)
(* out).  A DataFrame is the sequence of its rows.                            *)
(***************************************************************************)
EXTENDS Integers, Sequences, FiniteSets, TLC

VARIABLES file, raw_df, status, exception, widgets,
          start_date, end_date, selected_date, selected_index,
          filtered_raw, daily_counts, daily_metrics,
          day_raw, day_counts_detail,
          total_up, total_down, limit_up_count, limit_down_count,
          rendered

vars == <<file, raw_df, status, exception, widgets,
          start_date, end_date, selected_date, selected_index,
          filtered_raw, daily_counts, daily_metrics,
          day_raw, day_counts_detail,
          total_up, total_down, limit_up_count, limit_down_count,
          rendered>>

(***************************************************************************)
(* Bounds of the model.                                                    *)
(***************************************************************************)
MaxRows == 2

(***************************************************************************)
(* Program constants.                                                      *)
(***************************************************************************)
ORDER_LIST == <<">7%", "3~7%", "1~3%", "0~1%", "-1~0%", "-3~-1%", "-7~-3%", "<-7%">>

COLOR_MAP ==
  [g \in {ORDER_LIST[i] : i \in 1..Len(ORDER_LIST)} |->
     CASE g = "<-7%"   -> "#008000"
       [] g = "-7~-3%" -> "#00B300"
       [] g = "-3~-1%" -> "#66CC66"
       [] g = "-1~0%"  -> "#C3E6C3"
       [] g = "0~1%"   -> "#FFD9D9"
       [] g = "1~3%"   -> "#FF9999"
       [] g = "3~7%"   -> "#FF4D4D"
       [] g = ">7%"    -> "#FF0000"]

\* The index selector's options (ASCII names of the nine options).
index_options == <<"All", "SSE", "SZSE", "ChiNext", "STAR50", "SSE50", "CSI300", "CSI500", "CSI1000">>

ALL == index_options[1]

\* 9.8 percent, in tenths of a percent.
LIMIT_PCT == 98

\* What load_data returns for an absent file, and the state of the cache of
\* st.cache_data before load_data has returned.
None == [kind |-> "None"]

NotLoaded == [kind |-> "not_loaded"]

\* The missing value of a categorical column.
NaN == "NaN"

\* The value of a date widget that no run has created.
NoDate == 0

(***************************************************************************)
(* Inputs: the CSV files and the widget values the model draws from.       *)
(***************************************************************************)
\* Two consecutive days whose str() forms differ in the padded digit.
Dates == {9, 10}

\* The pct_chg and group cells of a CSV row: the values at and beyond both
\* limit thresholds and the zero change, each with the label the exporting
\* script gives it, and one row whose label is outside the 8-label domain.
CsvCells == {<<99, ">7%">>, <<98, ">7%">>, <<0, "0~1%">>,
             <<-98, "<-7%">>, <<-99, "<-7%">>, <<99, "limit-up">>}

\* The index-membership columns a CSV of the model may carry.
CsvColumnSets == {{}, {"CSI300"}}

\* The index options the model selects among: all stocks, an index that a
\* CSV may carry, an index that no CSV of the model carries.
IndexChoices == {ALL, "CSI300", "SSE50"}

\* For the trend: three days, the middle one of which a CSV may lack, and
\* rows that rise, fall and stay.
TrendDates == {9, 10, 11}

TrendCells == {<<99, ">7%">>, <<0, "0~1%">>, <<-99, "<-7%">>}

CsvRows(dates, cells, cols) ==
  {[date |-> d, pct_chg |-> c[1], group |-> c[2], member |-> m] :
     d \in dates, c \in cells, m \in [cols -> BOOLEAN]}

(***************************************************************************)
(* Frames: the sequence of the rows.                                       *)
(***************************************************************************)
EmptyFrame == <<>>

RowsOf(B) == {B[i] : i \in DOMAIN B}

Where(B, P(_)) == SelectSeq(B, P)

CountIf(B, P(_)) == Len(SelectSeq(B, P))

MapRows(B, F(_)) == [i \in DOMAIN B |-> F(B[i])]

\* The CSVs of the model list their rows in one order (by date, pct_chg,
\* group, membership): no operation of the script reads a row's position.
GroupRank(g) == IF g = "limit-up" THEN 1 ELSE 0

MemberRank(r) == Cardinality({c \in DOMAIN r.member : r.member[c]})

RowRank(r) ==
  (((r.date * 200) + (r.pct_chg + 100)) * 2 + GroupRank(r.group)) * 2 + MemberRank(r)

CsvTables(rows, maxrows) ==
  {s \in UNION {[1..n -> rows] : n \in 1..maxrows} :
     \A i \in 1..(Len(s) - 1) : RowRank(s[i]) <= RowRank(s[i + 1])}

Files ==
  {[kind |-> "absent"], [kind |-> "bad_dates"], [kind |-> "missing_column"]}
  \cup UNION {{[kind |-> "ok", columns |-> cols, rows |-> t] :
                 t \in CsvTables(CsvRows(Dates, CsvCells, cols), MaxRows)}
              : cols \in CsvColumnSets}

\* CSVs without index columns, with one row more, over the three days.
TrendFiles ==
  {[kind |-> "ok", columns |-> {}, rows |-> t] :
     t \in CsvTables(CsvRows(TrendDates, TrendCells, {}), MaxRows + 1)}

(***************************************************************************)
(* Strings of digits, compared as Python compares str.                     *)
(***************************************************************************)
RECURSIVE StrLess(_, _)
StrLess(a, b) ==
  IF a = <<>> THEN b # <<>>
  ELSE IF b = <<>> THEN FALSE
  ELSE IF a[1] # b[1] THEN a[1] < b[1]
  ELSE StrLess(Tail(a), Tail(b))

\* str(date): zero-padded day digits.
DateStr(d) == <<d \div 10, d % 10>>

\* Ascending order of a set of date strings (the order groupby and
\* sort_values give the date_str keys).
RECURSIVE SortedDateStrs(_)
SortedDateStrs(S) ==
  IF S = {} THEN <<>>
  ELSE LET m == CHOOSE x \in S : \A y \in S : ~StrLess(y, x)
       IN <<m>> \o SortedDateStrs(S \ {m})

\* sorted(..., reverse=True) of a set of dates.
RECURSIVE SortedReverse(_)
SortedReverse(S) ==
  IF S = {} THEN <<>>
  ELSE LET m == CHOOSE x \in S : \A y \in S : y <= x
       IN <<m>> \o SortedReverse(S \ {m})

(***************************************************************************)
(* 1. Data loading.                                                        *)
(***************************************************************************)
\* pd.Categorical(values, categories=ORDER_LIST): a value that is not a
\* category becomes NaN.
Categorical(g) ==
  IF \E i \in 1..Len(ORDER_LIST) : ORDER_LIST[i] = g THEN g ELSE NaN

LoadRow(r) ==
  [date |-> r.date, date_str |-> DateStr(r.date), pct_chg |-> r.pct_chg,
   group |-> Categorical(r.group), member |-> r.member]

\* load_data without its except clause: FileNotFoundError leaves it.
load_data_uncaught(f) ==
  CASE f.kind = "absent"         -> [raised |-> "FileNotFoundError", value |-> None]
    [] f.kind = "bad_dates"      -> [raised |-> "ValueError", value |-> None]
    [] f.kind = "missing_column" -> [raised |-> "KeyError", value |-> None]
    [] f.kind = "ok"             ->
         [raised |-> "none",
          value  |-> [kind |-> "df", columns |-> f.columns,
                      rows |-> MapRows(f.rows, LoadRow)]]

\* The body of load_data: what it returns, or the exception that leaves it.
\* Only FileNotFoundError is caught.
load_data(f) ==
  CASE f.kind = "absent"         -> [raised |-> "none", value |-> None]
    [] f.kind = "bad_dates"      -> [raised |-> "ValueError", value |-> None]
    [] f.kind = "missing_column" -> [raised |-> "KeyError", value |-> None]
    [] f.kind = "ok"             ->
         [raised |-> "none",
          value  |-> [kind |-> "df", columns |-> f.columns,
                      rows |-> MapRows(f.rows, LoadRow)]]

\* The guard of the st.error / st.stop branch.
IsAbsent(df) == df.kind = "None"

(***************************************************************************)
(* 2. Sidebar and the date-range filter.                                   *)
(***************************************************************************)
min_date(df) == CHOOSE d \in {r.date : r \in RowsOf(df.rows)} :
                  \A r \in RowsOf(df.rows) : d <= r.date

max_date(df) == CHOOSE d \in {r.date : r \in RowsOf(df.rows)} :
                  \A r \in RowsOf(df.rows) : r.date <= d

\* The mask without its lower bound.
MaskNoStart(r, s, e) == r.date <= e

Mask(r, s, e) == r.date >= s /\ r.date <= e

FilteredRaw(df, s, e) == Where(df.rows, LAMBDA r : Mask(r, s, e))

(***************************************************************************)
(* 3. Part 1: bucket counts per date.                                      *)
(***************************************************************************)
\* groupby(['date_str', 'group'], observed=False).size(): every date_str of
\* the frame with every category; rows whose group is NaN are in no group.
DailyCounts(fr) ==
  LET ds == SortedDateStrs({r.date_str : r \in RowsOf(fr)})
      n  == Len(ORDER_LIST)
  IN [i \in 1..(Len(ds) * n) |->
        LET d == ds[((i - 1) \div n) + 1]
            g == ORDER_LIST[((i - 1) % n) + 1]
        IN [date_str |-> d, group |-> g,
            count |-> CountIf(fr, LAMBDA r : r.date_str = d /\ r.group = g)]]

(***************************************************************************)
(* 3. Part 2: daily metrics.                                               *)
(***************************************************************************)
\* The k-th smallest pct_chg of a non-empty bag (k from 1).
Kth(B, k) ==
  CHOOSE v \in {r.pct_chg : r \in RowsOf(B)} :
    /\ CountIf(B, LAMBDA r : r.pct_chg < v) < k
    /\ k <= CountIf(B, LAMBDA r : r.pct_chg <= v)

\* Twice the median of pct_chg.
Median2(B) ==
  LET n == Len(B)
  IN IF n % 2 = 1 THEN 2 * Kth(B, (n + 1) \div 2)
     ELSE Kth(B, n \div 2) + Kth(B, (n \div 2) + 1)

UpCount(B) == CountIf(B, LAMBDA r : r.pct_chg > 0)

DownCount(B) == CountIf(B, LAMBDA r : r.pct_chg < 0)

\* groupby('date_str').apply(...).reset_index(): one row per date_str,
\* ascending.
GroupMetrics(fr) ==
  LET ds == SortedDateStrs({r.date_str : r \in RowsOf(fr)})
  IN [i \in 1..Len(ds) |->
        LET x == Where(fr, LAMBDA r : r.date_str = ds[i])
        IN [date_str |-> ds[i], median_pct |-> Median2(x),
            up |-> UpCount(x), down |-> DownCount(x)]]

\* Series.cumsum().
RECURSIVE CumSum(_)
CumSum(s) ==
  IF s = <<>> THEN <<>>
  ELSE LET front == CumSum(SubSeq(s, 1, Len(s) - 1))
       IN IF front = <<>> THEN <<s[1]>>
          ELSE Append(front, front[Len(front)] + s[Len(s)])

MedianColor(x) == IF x > 0 THEN "#FF4D4D" ELSE "#00B300"

DailyMetrics(fr) ==
  LET gm  == GroupMetrics(fr)
      net == [i \in 1..Len(gm) |-> gm[i].up - gm[i].down]
      cum == CumSum(net)
  IN [i \in 1..Len(gm) |->
        [date_str |-> gm[i].date_str, median_pct |-> gm[i].median_pct,
         up |-> gm[i].up, down |-> gm[i].down,
         net |-> net[i], cum_net |-> cum[i],
         median_color |-> MedianColor(gm[i].median_pct)]]

\* groupby.apply on a frame without rows never calls the lambda: the result
\* keeps the frame's own columns, and has no 'up' column to read.
HasMetricColumns(fr) == fr # <<>>

(***************************************************************************)
(* 3. Part 3: the single day.                                              *)
(***************************************************************************)
available_dates(df) == SortedReverse({r.date : r \in RowsOf(df.rows)})

DayRows(fr, D) == Where(fr, LAMBDA r : r.date = D)

HasColumn(df, idx) == idx \in df.columns

IndexRows(dr, idx) == Where(dr, LAMBDA r : r.member[idx] = TRUE)

\* value_counts() without the reindex: only the buckets that have rows.
DayCountsObserved(dr) ==
  SelectSeq([i \in 1..Len(ORDER_LIST) |->
               [group |-> ORDER_LIST[i],
                count |-> CountIf(dr, LAMBDA r : r.group = ORDER_LIST[i]),
                color_hex |-> COLOR_MAP[ORDER_LIST[i]],
                hover_text |-> <<ORDER_LIST[i],
                                 CountIf(dr, LAMBDA r : r.group = ORDER_LIST[i])>>]],
            LAMBDA x : x.count > 0)

\* day_raw once the index filter is applied (the column exists, or the
\* selection is all stocks).
DaySelection(fr, D, idx) ==
  IF idx = ALL THEN DayRows(fr, D) ELSE IndexRows(DayRows(fr, D), idx)

\* value_counts().reindex(ORDER_LIST, fill_value=0), with the colour column
\* and the hover text (the group and the count that the text is made of).
DayCountsDetail(dr) ==
  [i \in 1..Len(ORDER_LIST) |->
     [group |-> ORDER_LIST[i],
      count |-> CountIf(dr, LAMBDA r : r.group = ORDER_LIST[i]),
      color_hex |-> COLOR_MAP[ORDER_LIST[i]],
      hover_text |-> <<ORDER_LIST[i],
                       CountIf(dr, LAMBDA r : r.group = ORDER_LIST[i])>>]]

\* The limit-up count with a non-strict comparison.
LimitUpCountInclusive(dr) == CountIf(dr, LAMBDA r : r.pct_chg >= LIMIT_PCT)

LimitUpCount(dr) == CountIf(dr, LAMBDA r : r.pct_chg > LIMIT_PCT)

LimitDownCount(dr) == CountIf(dr, LAMBDA r : r.pct_chg < -LIMIT_PCT)

(***************************************************************************)
(* One execution of the script.                                            *)
(***************************************************************************)
SidebarWidgets == {"start_date", "end_date"}

Part3Widgets == {"selected_date", "selected_index"}

\* The run ends in st.stop() or in an uncaught exception before the sidebar.
NoTable(st, exc, out) ==
  /\ status' = st
  /\ exception' = exc
  /\ rendered' = out
  /\ widgets' = {}
  /\ start_date' = NoDate
  /\ end_date' = NoDate
  /\ selected_date' = NoDate
  /\ selected_index' = ALL
  /\ filtered_raw' = EmptyFrame
  /\ daily_counts' = <<>>
  /\ daily_metrics' = <<>>
  /\ day_raw' = EmptyFrame
  /\ day_counts_detail' = <<>>
  /\ total_up' = 0
  /\ total_down' = 0
  /\ limit_up_count' = 0
  /\ limit_down_count' = 0

\* Lines 38 to the end, for the values s, e, D, idx the widgets return.
Body(df, s, e, D, idx) ==
  LET fr == FilteredRaw(df, s, e)
  IN /\ start_date' = s
     /\ end_date' = e
     /\ filtered_raw' = fr
     /\ daily_counts' = DailyCounts(fr)
     /\ IF ~HasMetricColumns(fr)
        THEN \* KeyError at daily_metrics['up']; the widgets of part 3 are
             \* not created in this run and lose their state.
             /\ status' = "exception"
             /\ exception' = "KeyError"
             /\ rendered' = <<"fig_main">>
             /\ widgets' = SidebarWidgets
             /\ selected_date' = available_dates(df)[1]
             /\ selected_index' = ALL
             /\ daily_metrics' = <<>>
             /\ day_raw' = EmptyFrame
             /\ day_counts_detail' = <<>>
             /\ total_up' = 0
             /\ total_down' = 0
             /\ limit_up_count' = 0
             /\ limit_down_count' = 0
        ELSE /\ daily_metrics' = DailyMetrics(fr)
             /\ widgets' = SidebarWidgets \cup Part3Widgets
             /\ selected_date' = D
             /\ selected_index' = idx
             /\ IF idx # ALL /\ ~HasColumn(df, idx)
                THEN \* KeyError at day_raw[selected_index].
                     /\ status' = "exception"
                     /\ exception' = "KeyError"
                     /\ rendered' = <<"fig_main", "fig_median", "fig_trend">>
                     /\ day_raw' = DayRows(fr, D)
                     /\ day_counts_detail' = <<>>
                     /\ total_up' = 0
                     /\ total_down' = 0
                     /\ limit_up_count' = 0
                     /\ limit_down_count' = 0
                ELSE LET dr == DaySelection(fr, D, idx)
                     IN /\ status' = "done"
                        /\ exception' = "none"
                        /\ rendered' = <<"fig_main", "fig_median", "fig_trend",
                                         "fig_day", "summary">>
                        /\ day_raw' = dr
                        /\ day_counts_detail' = DayCountsDetail(dr)
                        /\ total_up' = UpCount(dr)
                        /\ total_down' = DownCount(dr)
                        /\ limit_up_count' = LimitUpCount(dr)
                        /\ limit_down_count' = LimitDownCount(dr)

\* Lines 29 to 36, then the body.  cached is the value load_data has
\* returned before, or NotLoaded; the widget arguments are the values the
\* widgets return when the run reaches them.
Script(cached, s, e, D, idx) ==
  LET ld == IF cached = NotLoaded THEN load_data(file)
            ELSE [raised |-> "none", value |-> cached]
  IN IF ld.raised # "none"
     THEN /\ raw_df' = NotLoaded
          /\ NoTable("exception", ld.raised, <<>>)
     ELSE /\ raw_df' = ld.value
          /\ IF IsAbsent(ld.value)
             THEN NoTable("stopped", "none", <<"error">>)
             ELSE Body(ld.value,
                       IF s = NoDate THEN min_date(ld.value) ELSE s,
                       IF e = NoDate THEN max_date(ld.value) ELSE e,
                       IF D = NoDate THEN available_dates(ld.value)[1] ELSE D,
                       idx)

(***************************************************************************)
(* Actions: the first run of a session and the interactions that rerun.    *)
(***************************************************************************)
FirstRun ==
  /\ status = "not_run"
  /\ Script(raw_df, NoDate, NoDate, NoDate, ALL)
  /\ UNCHANGED file

\* Rerun with the widgets as they are.
Rerun ==
  /\ status # "not_run"
  /\ Script(raw_df, start_date, end_date, selected_date, selected_index)
  /\ UNCHANGED file

SetStartDate ==
  /\ "start_date" \in widgets
  /\ \E d \in min_date(raw_df)..max_date(raw_df) :
       Script(raw_df, d, end_date, selected_date, selected_index)
  /\ UNCHANGED file

SetEndDate ==
  /\ "end_date" \in widgets
  /\ \E d \in min_date(raw_df)..max_date(raw_df) :
       Script(raw_df, start_date, d, selected_date, selected_index)
  /\ UNCHANGED file

SelectDate ==
  /\ "selected_date" \in widgets
  /\ \E i \in 1..Len(available_dates(raw_df)) :
       Script(raw_df, start_date, end_date, available_dates(raw_df)[i], selected_index)
  /\ UNCHANGED file

SelectIndex ==
  /\ "selected_index" \in widgets
  /\ \E idx \in IndexChoices :
       Script(raw_df, start_date, end_date, selected_date, idx)
  /\ UNCHANGED file

InitWith(F) ==
  /\ file \in F
  /\ raw_df = NotLoaded
  /\ status = "not_run"
  /\ exception = "none"
  /\ widgets = {}
  /\ start_date = NoDate
  /\ end_date = NoDate
  /\ selected_date = NoDate
  /\ selected_index = ALL
  /\ filtered_raw = EmptyFrame
  /\ daily_counts = <<>>
  /\ daily_metrics = <<>>
  /\ day_raw = EmptyFrame
  /\ day_counts_detail = <<>>
  /\ total_up = 0
  /\ total_down = 0
  /\ limit_up_count = 0
  /\ limit_down_count = 0
  /\ rendered = <<>>

Next ==
  \/ FirstRun
  \/ Rerun
  \/ SetStartDate
  \/ SetEndDate
  \/ SelectDate
  \/ SelectIndex

Init == InitWith(Files)

Spec == Init /\ [][Next]_vars

\* The same script on the CSVs of the trend.
InitTrend == InitWith(TrendFiles)

SpecTrend == InitTrend /\ [][Next]_vars

(***************************************************************************)
(* Properties.                                                             *)
(***************************************************************************)
Ran == status # "not_run"

Loaded == raw_df.kind = "df"

RenderedSet == {rendered[i] : i \in DOMAIN rendered}

DayAggregate == <<day_counts_detail, total_up, total_down,
                  limit_up_count, limit_down_count>>

\* The single-day aggregate the script computes for a trend range [s, e].
DayAggregateFor(s, e) ==
  LET dr == DaySelection(FilteredRaw(raw_df, s, e), selected_date, selected_index)
  IN <<DayCountsDetail(dr), UpCount(dr), DownCount(dr),
       LimitUpCount(dr), LimitDownCount(dr)>>

\* C1: the single-day aggregate of a completed run is the one every other
\* trend range [s, e] gives for the same date and index filter, the full
\* range included, whether or not the selected date lies in the range.
C1_DayIndependentOfRange ==
  (Loaded /\ status = "done") =>
    \A s \in min_date(raw_df)..max_date(raw_df) :
      \A e \in s..max_date(raw_df) :
        DayAggregateFor(s, e) = DayAggregate

\* C2: with an index filter that is no column of the table, the run
\* completes, shows a warning and the single-day chart, and the aggregate is
\* the one of the unfiltered rows of the selected date.
C2_MissingColumnFallsBack ==
  (Loaded /\ "selected_index" \in widgets
     /\ selected_index # ALL /\ selected_index \notin raw_df.columns) =>
    /\ status = "done"
    /\ exception = "none"
    /\ "warning" \in RenderedSet
    /\ "fig_day" \in RenderedSet
    /\ LET dr == DayRows(filtered_raw, selected_date)
       IN DayAggregate = <<DayCountsDetail(dr), UpCount(dr), DownCount(dr),
                           LimitUpCount(dr), LimitDownCount(dr)>>

\* C3: when the selected day has no matching rows, a warning is rendered in
\* place of the single-day chart, and the trend charts are rendered.
C3_NoDataForDateWarns ==
  (Loaded /\ status = "done" /\ day_raw = <<>>) =>
    /\ "warning" \in RenderedSet
    /\ "fig_day" \notin RenderedSet
    /\ {"fig_main", "fig_median", "fig_trend"} \subseteq RenderedSet

\* C4: a malformed CSV is handled as a missing one: load_data returns None,
\* the run shows the error and stops, no exception is left uncaught and no
\* chart is rendered.
C4_MalformedIsAbsent ==
  (Ran /\ file.kind \in {"bad_dates", "missing_column"}) =>
    /\ raw_df = None
    /\ status = "stopped"
    /\ exception = "none"
    /\ rendered = <<"error">>

\* C5: with the input file absent, load_data returns None and every run
\* stops after the error message: nothing is aggregated and no chart and no
\* summary line is rendered, in the first run and in every rerun.
C5_AbsentFileHalts ==
  /\ (Ran /\ file.kind = "absent") => raw_df = None
  /\ raw_df = None =>
       /\ status = "stopped"
       /\ exception = "none"
       /\ rendered = <<"error">>
       /\ widgets = {}
       /\ filtered_raw = <<>> /\ daily_counts = <<>> /\ daily_metrics = <<>>
       /\ day_raw = <<>> /\ day_counts_detail = <<>>

C5_Witness == file.kind = "absent" /\ status = "stopped" /\ rendered = <<"error">>

\* The dates of the current range that have rows, and the net of a date,
\* counted on the loaded table.
RangeDates ==
  {d \in start_date..end_date : \E i \in DOMAIN raw_df.rows : raw_df.rows[i].date = d}

RefNet(d) ==
  Cardinality({i \in DOMAIN raw_df.rows :
                 raw_df.rows[i].date = d /\ raw_df.rows[i].pct_chg > 0})
  - Cardinality({i \in DOMAIN raw_df.rows :
                   raw_df.rows[i].date = d /\ raw_df.rows[i].pct_chg < 0})

RECURSIVE RefNetSum(_)
RefNetSum(S) ==
  IF S = {} THEN 0
  ELSE LET d == CHOOSE x \in S : TRUE IN RefNet(d) + RefNetSum(S \ {d})

\* C6: the daily metrics hold one row per date of the current range that has
\* rows, in ascending date order, and cum_net at a date d is the sum of
\* net = up - down over the dates of the range up to d, and no other date.
C6_CumNetIsPrefixSum ==
  (Loaded /\ Ran /\ RangeDates # {}) =>
    /\ Len(daily_metrics) = Cardinality(RangeDates)
    /\ \A d \in RangeDates :
         LET i == Cardinality({x \in RangeDates : x <= d})
         IN /\ daily_metrics[i].date_str = DateStr(d)
            /\ daily_metrics[i].net = RefNet(d)
            /\ daily_metrics[i].cum_net = RefNetSum({x \in RangeDates : x <= d})

\* A range that starts after the first date of the table, with two dates
\* whose nets are not zero.
C6_Witness ==
  /\ Loaded /\ status = "done"
  /\ start_date > min_date(raw_df)
  /\ RefNet(min_date(raw_df)) # 0
  /\ Len(daily_metrics) = 2
  /\ daily_metrics[1].net # 0
  /\ daily_metrics[2].net # 0
  /\ daily_metrics[2].cum_net = daily_metrics[1].net + daily_metrics[2].net

RECURSIVE SumCounts(_)
SumCounts(s) == IF s = <<>> THEN 0 ELSE s[1].count + SumCounts(Tail(s))

\* C7: the bucket counts of a date sum to the number of rows of that date,
\* in the trend table for the dates of the range and in the single-day table
\* for the selected rows, whatever the group values of the CSV.
C7_CountsSumToRows ==
  (Loaded /\ Ran) =>
    /\ \A d \in RangeDates :
         SumCounts(SelectSeq(daily_counts, LAMBDA c : c.date_str = DateStr(d)))
           = Cardinality({i \in DOMAIN filtered_raw : filtered_raw[i].date = d})
    /\ status = "done" => SumCounts(day_counts_detail) = Len(day_raw)

\* C8: a date range that selects no rows gives empty bucket counts and empty
\* daily metrics, and the run completes without an exception.
C8_EmptyRangeCompletes ==
  (Loaded /\ Ran /\ filtered_raw = <<>>) =>
    /\ daily_counts = <<>>
    /\ daily_metrics = <<>>
    /\ exception = "none"
    /\ status = "done"

\* C9: limit_up_count counts the selected rows with pct_chg strictly above
\* 9.8, limit_down_count those strictly below -9.8; up and down count the
\* rows above and below zero.
C9_StrictLimits ==
  status = "done" =>
    /\ limit_up_count = Cardinality({i \in DOMAIN day_raw : day_raw[i].pct_chg > 98})
    /\ limit_down_count = Cardinality({i \in DOMAIN day_raw : day_raw[i].pct_chg < -98})
    /\ total_up = Cardinality({i \in DOMAIN day_raw : day_raw[i].pct_chg > 0})
    /\ total_down = Cardinality({i \in DOMAIN day_raw : day_raw[i].pct_chg < 0})

C9_Witness ==
  /\ status = "done"
  /\ \E i \in DOMAIN day_raw : day_raw[i].pct_chg = 98
  /\ \E i \in DOMAIN day_raw : day_raw[i].pct_chg = -98
  /\ limit_up_count = 0
  /\ limit_down_count = 0

\* C10: the single-day count table has 8 rows, one per bucket in the fixed
\* order, each with the number of selected rows of the bucket, 0 included.
C10_EightBucketsInOrder ==
  status = "done" =>
    /\ [i \in DOMAIN day_counts_detail |-> day_counts_detail[i].group]
         = <<">7%", "3~7%", "1~3%", "0~1%", "-1~0%", "-3~-1%", "-7~-3%", "<-7%">>
    /\ \A i \in DOMAIN day_counts_detail :
         day_counts_detail[i].count
           = Cardinality({j \in DOMAIN day_raw :
                            day_raw[j].group = day_counts_detail[i].group})

C10_Witness ==
  /\ status = "done"
  /\ \E i \in DOMAIN day_counts_detail : day_counts_detail[i].count = 0
  /\ \E i \in DOMAIN day_counts_detail : day_counts_detail[i].count > 0

====
